---- MODULE Spec2Model ----
(***************************************************************************)
(* The RPC client of src/rpc/client.rs: Client handles (and their clones)  *)
(* writing Request / Notification frames to the engine, the reader thread  *)
(* spawned by Client::new that decodes and routes the engine's lines, the  *)
(* pending-request table behind its mutex, the operations channel and the  *)
(* consumer thread of src/main.rs.                                         *)
(*                                                                         *)
(* The two pipes are FIFO byte streams.  A line of the inbound pipe is     *)
(* drawn at the moment the reader thread takes it (what the engine wrote   *)
(* earlier and what it writes now are the same to the client), and the     *)
(* engine may answer a request once its whole line is on the outbound pipe.*)
(***************************************************************************)
EXTENDS Naturals, Integers, Sequences, FiniteSets, TLC

\* Bounds of the model.
MaxHandles == 2
MaxSends == 2
MaxInbound == 3
MaxWatchees == 2
MaxFsEvents == 2
MaxEventPaths == 2

NoId == -1

Handles == 1..MaxHandles

VARIABLES
    handles,             \* the Client handles that exist (1 is the one Client::new returned)
    current_request_id,  \* Client.current_request_id, one Cell per handle
    pc,                  \* where each handle's caller is inside send_notification / send_request
    cur,                 \* the frame a handle's caller is sending (NoFrame: none)
    pending_requests,    \* the shared table: a set of <<id, callback>>, one entry per id
    lock_held,           \* the table's MutexGuard is alive on the reader thread
    poisoned,            \* the table's mutex was poisoned by a panic under the guard
    sent,                \* every frame a send_* call built
    to_core,             \* the chunks on the outbound pipe since its last newline
    core_lines,          \* the lines the engine has read from the outbound pipe
    answered,            \* the requests the engine has answered
    from_core,           \* the lines the reader thread has taken from the inbound pipe
    reader_pc,           \* the reader thread's position
    msg,                 \* the decoded message the reader thread is routing
    reader_fault,        \* why the reader thread ended
    rpc_chan,            \* the unbounded operations channel (rpc_sender -> rpc_receiver)
    delivered,           \* every operation the consumer thread received, in order
    consumer_pc,         \* the consumer thread's position
    calls,               \* every callback invocation: <<callback, result>>, in order
    engine_alive,        \* the engine thread runs and holds the read end of the outbound pipe
    codec,               \* a frame on its way through encode and decode
    watchees,            \* WatcherState.watchees: the Vec of registered watchees
    inner,               \* the paths the underlying notify watcher watches: <<path, recursive>>
    events,              \* WatcherState.events: the queue of <<token, event>>
    taken,               \* the pairs the take_events calls returned, in order
    fs_log,              \* the events the underlying watcher has reported, in order
    last_removed,        \* the watchee the last unwatch call removed
    last_call,           \* the last watch / unwatch call: its arguments, the list before a watch
    wants,               \* the last wants_event call: the watchee, the event, the answer
    watcher_pc,          \* the watcher thread's position
    mutex,               \* who holds AppState.core (the Client mutex) and AppState.view
    ui_pc,               \* the UI thread's position in handle_event / req_new_view
    view_core,           \* AppState.view: the ViewCore behind the view mutex
    workspace,           \* AppState.workspace: origin_text, input_text, current_file
    current_file,        \* AppState.current_file
    opening,             \* the path open_file is loading (NoFile: no open_file runs)
    disk,                \* the bytes of each file
    loaded,              \* the text the last open_file loaded
    last_cmd             \* the last command the UI handled and whether it wrote a file

vars == <<handles, current_request_id, pc, cur, pending_requests, lock_held, poisoned,
          sent, to_core, core_lines, answered, from_core, reader_pc, msg, reader_fault,
          rpc_chan, delivered, consumer_pc, calls, engine_alive, codec,
          watchees, inner, events, taken, fs_log, last_removed, last_call,
          wants, watcher_pc,
          mutex, ui_pc, view_core,
          workspace, current_file, opening, disk, loaded, last_cmd>>

callerVars == <<handles, current_request_id, pc, cur, sent, to_core, core_lines>>
readerVars == <<from_core, reader_pc, msg, reader_fault, answered>>
chanVars == <<rpc_chan, delivered, consumer_pc>>
\* What the client's threads do not write.
watcherVars ==
    <<watchees, inner, events, taken, fs_log, last_removed, last_call, wants, watcher_pc>>
lockVars == <<mutex, ui_pc, view_core>>
editorVars == <<workspace, current_file, opening, disk, loaded, last_cmd>>
outsideVars == <<engine_alive, codec, watcherVars, lockVars, editorVars>>
\* Everything of the RPC client, for the steps of the file watcher.
clientVars ==
    <<pending_requests, lock_held, poisoned, calls, callerVars, readerVars, chanVars,
      engine_alive, codec, lockVars, editorVars>>

----------------------------------------------------------------------------
(* Frames and lines *)

\* A frame is its own identity: the n-th frame built through handle h
\* (h = 0: the clone a callback captured).
NoFrame == [h |-> 0, n |-> 0, kind |-> "none", id |-> NoId, cb |-> "none"]

\* The number of the next frame built through h.
NextN(h) == Cardinality({f \in sent : f.h = h}) + 1

\* json!({"method":..,"params":..}) of send_notification.
NotificationFrame(h) ==
    [h |-> h, n |-> NextN(h), kind |-> "notification", id |-> NoId, cb |-> "none"]

\* json!({"method":..,"params":..,"id": current_request_id}) of send_request;
\* cb is what the callback does when it is called.
RequestFrame(h, id, cb) ==
    [h |-> h, n |-> NextN(h), kind |-> "request", id |-> id, cb |-> cb]

BodyChunk(f) == [f |-> f, part |-> "body"]
NlChunk(f) == [f |-> f, part |-> "nl"]

\* sender.write_all(..): one write on the pipe.
WriteAll(wire, chunk) == Append(wire, chunk)

\* The bodies of a line, the newline dropped.
Bodies(wire) == [i \in 1..(Len(wire) - 1) |-> wire[i].f]

\* The pipe after a write: a newline ends the line, which the engine reads.
PipeAfter(wire) ==
    IF wire # <<>> /\ wire[Len(wire)].part = "nl" THEN <<>> ELSE wire

LinesAfter(lines, wire) ==
    IF wire # <<>> /\ wire[Len(wire)].part = "nl"
    THEN lines \cup {Bodies(wire)}
    ELSE lines

\* A write of a caller or of a callback on the outbound pipe.
Write(chunk) ==
    /\ to_core' = PipeAfter(WriteAll(to_core, chunk))
    /\ core_lines' = LinesAfter(core_lines, WriteAll(to_core, chunk))

\* The requests the engine has received as a well-formed line.
Received == {f \in sent : f.kind = "request" /\ <<f>> \in core_lines}

\* An inbound line: text is "json" | "garbage" | "bad_utf8"; a json line has
\* the fields method and id or not; valid says the params decode into the
\* method's payload type; for is the request the engine answers.
Line(text, method, id, valid, result, for) ==
    [text |-> text, method |-> method, id |-> id, valid |-> valid,
     result |-> result, for |-> for]

NoMethod == "-"

ResponseLine(f) == Line("json", NoMethod, f.id, TRUE, f, f)
UnsolicitedResponse(id) == Line("json", NoMethod, id, TRUE, NoFrame, NoFrame)
NotificationLine(method, valid) == Line("json", method, NoId, valid, NoFrame, NoFrame)
RequestLine(method, id, valid) == Line("json", method, id, valid, NoFrame, NoFrame)
GarbageLine == Line("garbage", NoMethod, NoId, FALSE, NoFrame, NoFrame)
EmptyLine == Line("empty", NoMethod, NoId, FALSE, NoFrame, NoFrame)

\* Lines the engine may write at any time.
InjectLines ==
    {NotificationLine("theme_changed", TRUE),
     NotificationLine("theme_changed", FALSE),
     NotificationLine("not_a_real_method", TRUE),
     RequestLine("measure_width", 7, TRUE),
     RequestLine("not_a_real_request", 8, TRUE),
     GarbageLine}
    \cup {UnsolicitedResponse(id) : id \in {0, 1}}

\* Message::decode: a Response has id and no method, a Request both, a
\* Notification method and no id; anything else is an error.
Decode(line) ==
    IF line.text # "json" THEN [tag |-> "Err"]
    ELSE IF line.method = NoMethod /\ line.id # NoId
        THEN [tag |-> "Response", id |-> line.id, result |-> line.result]
    ELSE IF line.method # NoMethod /\ line.id # NoId
        THEN [tag |-> "Request", method |-> line.method, id |-> line.id, valid |-> line.valid]
    ELSE IF line.method # NoMethod
        THEN [tag |-> "Notification", method |-> line.method, valid |-> line.valid]
    ELSE [tag |-> "Err"]

NoMsg == [tag |-> "None"]

\* No frame is being encoded or decoded.
NoCodec == [stage |-> "none"]

\* position() found nothing; no unwatch call has removed a watchee.
NoWatchee == [token |-> 0]

\* No thread holds the mutex.
Free == "free"

\* Option::None in ViewCore.focused.
NoView == "none"

\* Option::None in AppState.current_file.
NoFile == "none"

\* The files on disk and their bytes when the program starts: "ff" is a
\* byte that is not UTF-8, "efbfbd" the three bytes of U+FFFD.
Files == {"f", "g", "h"}
DiskAtStart == [f |-> <<"x", "y">>, g |-> <<>>, h |-> <<"x", "ff">>]

----------------------------------------------------------------------------
(* The frame codec on JSON objects.  An object is a function from the names *)
(* of its fields to their values; Decode above is DecodeObject on lines of  *)
(* which only the presence of method and id is kept.                        *)

JsonValues == {"null", "{}", "42"}

\* Frame: Request{method, params, id}, Response{id, result}, Notification{method, params}.
RequestFrames ==
    [tag : {"Request"}, method : {"new_view", "measure_width"},
     params : JsonValues, id : 0..MaxSends]
ResponseFrames ==
    [tag : {"Response"}, id : 0..MaxSends, result : {"Ok", "Err"} \X JsonValues]
NotificationFrames ==
    [tag : {"Notification"}, method : {"resize", "theme_changed"}, params : JsonValues]
CodecFrames == RequestFrames \cup ResponseFrames \cup NotificationFrames

\* A request encoded without its id.
EncodeRequestNoId(method, params, id) == [method |-> method, params |-> params]

\* json!({"method": method, "params": params, "id": self.current_request_id}),
\* lines 225-229.
EncodeRequest(method, params, id) == [method |-> method, params |-> params, id |-> id]

\* json!({"method": method, "params": params}), lines 196-199.
EncodeNotification(method, params) == [method |-> method, params |-> params]

\* A Response on the wire: {"id", "result"} or {"id", "error"}.
EncodeResponse(id, result) ==
    IF result[1] = "Ok" THEN [id |-> id, result |-> result[2]]
    ELSE [id |-> id, error |-> result[2]]

Encode(f) ==
    CASE f.tag = "Request" -> EncodeRequest(f.method, f.params, f.id)
      [] f.tag = "Response" -> EncodeResponse(f.id, f.result)
      [] f.tag = "Notification" -> EncodeNotification(f.method, f.params)

\* Message::decode on a JSON object, by the fields present.
DecodeObject(o) ==
    IF "id" \in DOMAIN o /\ "method" \notin DOMAIN o THEN
        IF "result" \in DOMAIN o
        THEN [tag |-> "Response", id |-> o.id, result |-> <<"Ok", o.result>>]
        ELSE IF "error" \in DOMAIN o
        THEN [tag |-> "Response", id |-> o.id, result |-> <<"Err", o.error>>]
        ELSE [tag |-> "Err"]
    ELSE IF "method" \in DOMAIN o /\ "params" \in DOMAIN o THEN
        IF "id" \in DOMAIN o
        THEN [tag |-> "Request", method |-> o.method, params |-> o.params, id |-> o.id]
        ELSE [tag |-> "Notification", method |-> o.method, params |-> o.params]
    ELSE [tag |-> "Err"]

----------------------------------------------------------------------------
(* The pending-request table *)

\* A table that keeps the newest entry only.
InsertEvicts(table, id, cb) == {<<id, cb>>}

\* HashMap::insert: the entry of id is replaced.
Insert(table, id, cb) == {e \in table : e[1] # id} \cup {<<id, cb>>}

\* A lookup that takes any entry of the table, whatever its id.
LookupAny(table, id) ==
    IF table # {} THEN (CHOOSE e \in table : TRUE)[2] ELSE NoFrame

\* HashMap::remove, the callback found (NoFrame: none).
Lookup(table, id) ==
    IF \E e \in table : e[1] = id
    THEN (CHOOSE e \in table : e[1] = id)[2]
    ELSE NoFrame

\* A lookup that leaves the entry in the table (get in place of remove).
RemoveKeepsEntry(table, id) == table

\* HashMap::remove, the table left.
Remove(table, id) == {e \in table : e[1] # id}

\* `if let Some(cb) = pending_requests.lock().unwrap().remove(&id) { cb.call(result) }`:
\* the guard is a temporary of the scrutinee and lives to the end of the if let.
GuardHeldDuringCall == TRUE

----------------------------------------------------------------------------
(* The operations channel *)

\* A channel of capacity one whose send gives up when it is full.
ChanSendBounded(ch, op) == IF Len(ch) >= 1 THEN ch ELSE Append(ch, op)

\* rpc_sender.send on the unbounded channel.
ChanSend(ch, op) == Append(ch, op)

\* A receive that takes the newest operation (a stack, not a queue).
ChanRecvNewest(ch) == <<ch[Len(ch)], SubSeq(ch, 1, Len(ch) - 1)>>

\* rpc_receiver.recv: the operation received and the channel left.
ChanRecv(ch) == <<Head(ch), Tail(ch)>>

\* enum RpcOperations, lines 74-91: the variants.
RpcOperations ==
    {"Update", "ScrollTo", "DefStyle", "AvailablePlugins", "UpdateCmds",
     "PluginStarted", "PluginStopped", "ConfigChanged", "ThemeChanged", "Alert",
     "AvailableThemes", "FindStatus", "ReplaceStatus", "AvailableLanguages",
     "LanguageChanged", "MeasureWidth"}

\* The arms of the match of Client::handle_notification, lines 244-276.
RoutingTable ==
    [update |-> "Update",
     scroll_to |-> "ScrollTo",
     def_style |-> "DefStyle",
     available_plugins |-> "AvailablePlugins",
     plugin_started |-> "PluginStarted",
     plugin_stopped |-> "PluginStopped",
     update_cmds |-> "UpdateCmds",
     config_changed |-> "ConfigChanged",
     theme_changed |-> "ThemeChanged",
     alert |-> "Alert",
     available_themes |-> "AvailableThemes",
     find_status |-> "FindStatus",
     replace_status |-> "ReplaceStatus",
     available_languages |-> "AvailableLanguages",
     language_changed |-> "LanguageChanged"]

KnownMethods == DOMAIN RoutingTable

\* A table in which the arm of available_themes builds the variant of
\* theme_changed.
RoutedMerged(method) ==
    IF method = "available_themes" THEN RoutingTable["theme_changed"]
    ELSE IF method \in KnownMethods THEN RoutingTable[method]
    ELSE "unreachable"

\* Client::handle_notification: the variant the method's arm builds, the
\* `_` arm (lines 277-279) for any other method.
Routed(method) ==
    IF method \in KnownMethods THEN RoutingTable[method] ELSE "unreachable"

----------------------------------------------------------------------------
(* Client::new: a fresh handle, an empty table, the reader thread and the  *)
(* channel; main spawns the consumer thread.                               *)

Init ==
    /\ handles = {1}
    /\ current_request_id = [h \in Handles |-> 0]
    /\ pc = [h \in Handles |-> "idle"]
    /\ cur = [h \in Handles |-> NoFrame]
    /\ pending_requests = {}
    /\ lock_held = FALSE
    /\ poisoned = FALSE
    /\ sent = {}
    /\ to_core = <<>>
    /\ core_lines = {}
    /\ answered = {}
    /\ from_core = <<>>
    /\ reader_pc = "read"
    /\ msg = NoMsg
    /\ reader_fault = "none"
    /\ rpc_chan = <<>>
    /\ delivered = <<>>
    /\ consumer_pc = "recv"
    /\ calls = <<>>
    /\ engine_alive = TRUE
    /\ codec = NoCodec
    /\ watchees = <<>>
    /\ inner = {}
    /\ events = <<>>
    /\ taken = <<>>
    /\ fs_log = <<>>
    /\ last_removed = NoWatchee
    /\ last_call = [op |-> "none"]
    /\ wants = [asked |-> FALSE]
    /\ watcher_pc = "recv"
    /\ mutex = [core |-> Free, view |-> Free]
    /\ ui_pc = "idle"
    /\ view_core = [focused |-> NoView, views |-> {}]
    /\ workspace = [origin_text |-> <<>>, input_text |-> <<>>, current_file |-> NoFile]
    /\ current_file = NoFile
    /\ opening = NoFile
    /\ disk = DiskAtStart
    /\ loaded = <<>>
    /\ last_cmd = [cmd |-> "none", wrote |-> FALSE]

\* The send_* calls begun, counting the request a resend callback will send.
SendsUsed ==
    Cardinality(sent)
    + Cardinality({f \in sent : f.cb = "resend"})
    - Cardinality({f \in sent : f.h = 0})

----------------------------------------------------------------------------
(* The callers *)

\* impl Clone for Client: sender and table are shared, the Cell is copied.
CloneCounter(h) == current_request_id[h]

\* A clone that gets a table of its own (Arc::new in place of Arc::clone).
SharesTableOriginalOnly(h) == h = 1

\* pending_requests: self.pending_requests.clone(), line 50: the clone of an
\* Arc is the table itself, so the table of handle h is the one the reader
\* thread got at line 103.
SharesTable(h) == TRUE

Clone(h, h2) ==
    /\ h \in handles /\ pc[h] = "idle"
    /\ h2 \in Handles \ handles
    /\ h2 = Cardinality(handles) + 1
    /\ handles' = handles \cup {h2}
    /\ current_request_id' = [current_request_id EXCEPT ![h2] = CloneCounter(h)]
    /\ UNCHANGED <<pc, cur, sent, to_core, core_lines, pending_requests, lock_held, poisoned,
                   calls>>
    /\ UNCHANGED readerVars /\ UNCHANGED chanVars
    /\ UNCHANGED outsideVars

\* write_all(..).unwrap() on the pipe whose read end is dropped: write_all
\* returns Err(BrokenPipe) and unwrap panics on the calling thread; nothing
\* reaches the pipe.
WriteFails(h) ==
    /\ pc' = [pc EXCEPT ![h] = "write_panicked"]
    /\ UNCHANGED <<sent, to_core, core_lines>>

\* send_notification, lines 196-202: build cmd, write its bytes.
SendNotificationBody(h) ==
    /\ h \in handles /\ pc[h] = "idle"
    /\ SendsUsed < MaxSends
    /\ cur' = [cur EXCEPT ![h] = NotificationFrame(h)]
    /\ IF engine_alive
       THEN /\ sent' = sent \cup {NotificationFrame(h)}
            /\ Write(BodyChunk(NotificationFrame(h)))
            /\ pc' = [pc EXCEPT ![h] = "n_nl"]
       ELSE WriteFails(h)
    /\ UNCHANGED <<handles, current_request_id, pending_requests, lock_held, poisoned,
                   calls>>
    /\ UNCHANGED readerVars /\ UNCHANGED chanVars
    /\ UNCHANGED outsideVars

\* send_notification, lines 203-204: write the newline, flush.
SendNotificationNl(h) ==
    /\ pc[h] = "n_nl"
    /\ IF engine_alive
       THEN /\ Write(NlChunk(cur[h]))
            /\ cur' = [cur EXCEPT ![h] = NoFrame]
            /\ pc' = [pc EXCEPT ![h] = "idle"]
            /\ UNCHANGED sent
       ELSE WriteFails(h) /\ UNCHANGED cur
    /\ UNCHANGED <<handles, current_request_id, pending_requests, lock_held,
                   poisoned, calls>>
    /\ UNCHANGED readerVars /\ UNCHANGED chanVars
    /\ UNCHANGED outsideVars

\* send_request, lines 225-232: build cmd with the handle's counter, write its bytes.
SendRequestBody(h, cb) ==
    /\ h \in handles /\ pc[h] = "idle"
    /\ SendsUsed + (IF cb = "resend" THEN 2 ELSE 1) <= MaxSends
    /\ cur' = [cur EXCEPT ![h] = RequestFrame(h, current_request_id[h], cb)]
    /\ IF engine_alive
       THEN /\ sent' = sent \cup {RequestFrame(h, current_request_id[h], cb)}
            /\ Write(BodyChunk(RequestFrame(h, current_request_id[h], cb)))
            /\ pc' = [pc EXCEPT ![h] = "r_nl"]
       ELSE WriteFails(h)
    /\ UNCHANGED <<handles, current_request_id, pending_requests, lock_held, poisoned,
                   calls>>
    /\ UNCHANGED readerVars /\ UNCHANGED chanVars
    /\ UNCHANGED outsideVars

\* send_request, lines 233-234: write the newline, flush.
SendRequestNl(h) ==
    /\ pc[h] = "r_nl"
    /\ IF engine_alive
       THEN /\ Write(NlChunk(cur[h]))
            /\ pc' = [pc EXCEPT ![h] = "r_insert"]
            /\ UNCHANGED sent
       ELSE WriteFails(h)
    /\ UNCHANGED <<handles, current_request_id, cur, pending_requests, lock_held,
                   poisoned, calls>>
    /\ UNCHANGED readerVars /\ UNCHANGED chanVars
    /\ UNCHANGED outsideVars

\* current_request_id.set(id + 1), line 239.
NextRequestId(id) == id + 1

\* send_request, lines 235-239: lock the table, insert the callback under the
\* id of the frame, advance the counter.  lock() waits while the guard is
\* held; unwrap() panics on a poisoned mutex.
SendRequestInsert(h) ==
    /\ pc[h] = "r_insert"
    /\ ~lock_held
    /\ IF poisoned
       THEN /\ pc' = [pc EXCEPT ![h] = "panicked"]
            /\ UNCHANGED <<pending_requests, current_request_id, cur>>
       ELSE /\ pending_requests' =
                   IF SharesTable(h)
                   THEN Insert(pending_requests, cur[h].id, cur[h])
                   ELSE pending_requests
            /\ current_request_id' =
                   [current_request_id EXCEPT ![h] = NextRequestId(cur[h].id)]
            /\ cur' = [cur EXCEPT ![h] = NoFrame]
            /\ pc' = [pc EXCEPT ![h] = "idle"]
    /\ UNCHANGED <<handles, sent, to_core, core_lines, lock_held, poisoned, calls>>
    /\ UNCHANGED readerVars /\ UNCHANGED chanVars
    /\ UNCHANGED outsideVars

----------------------------------------------------------------------------
(* The reader thread of Client::new, lines 105-147 *)

ReaderEnded == reader_pc \in {"stopped", "panicked"}

\* A panic of the reader thread: the thread unwinds, a guard it holds
\* poisons the mutex and is released.
ReaderPanics(why) ==
    /\ reader_pc' = "panicked"
    /\ reader_fault' = why
    /\ msg' = NoMsg
    /\ poisoned' = (poisoned \/ lock_held)
    /\ lock_held' = FALSE

\* The lines the engine can have on the inbound pipe now.
EngineLines == InjectLines \cup {ResponseLine(f) : f \in Received \ answered}

\* read_line returns a line, Message::decode (lines 107-114): an error panics.
ReadLine(line) ==
    /\ reader_pc = "read"
    /\ engine_alive
    /\ Len(from_core) < MaxInbound
    /\ from_core' = Append(from_core, line)
    /\ answered' = answered \cup ({line.for} \ {NoFrame})
    /\ IF Decode(line).tag = "Err"
       THEN ReaderPanics("decode")
       ELSE /\ msg' = Decode(line)
            /\ reader_pc' = "dispatch"
            /\ UNCHANGED <<reader_fault, poisoned, lock_held>>
    /\ UNCHANGED <<pending_requests, calls>>
    /\ UNCHANGED callerVars /\ UNCHANGED chanVars
    /\ UNCHANGED outsideVars

\* read_line returns Ok(0) at end of stream: buf is empty, decode fails.
ReadEof ==
    /\ reader_pc = "read"
    /\ IF Decode(EmptyLine).tag = "Err"
       THEN ReaderPanics("eof")
       ELSE /\ msg' = Decode(EmptyLine)
            /\ reader_pc' = "dispatch"
            /\ UNCHANGED <<reader_fault, poisoned, lock_held>>
    /\ UNCHANGED <<from_core, answered, pending_requests, calls>>
    /\ UNCHANGED callerVars /\ UNCHANGED chanVars
    /\ UNCHANGED outsideVars

\* read_line returns Err (a read failure, bytes that are not UTF-8): the
\* while loop ends and the thread returns.
ReadError ==
    /\ reader_pc = "read"
    /\ reader_pc' = "stopped"
    /\ reader_fault' = "read"
    /\ UNCHANGED <<from_core, answered, msg, pending_requests, lock_held, poisoned,
                   calls>>
    /\ UNCHANGED callerVars /\ UNCHANGED chanVars
    /\ UNCHANGED outsideVars

\* A match that takes every message with an id for a Response.
ArmById(m) == IF m.tag = "Request" THEN "Response" ELSE m.tag

\* match msg, lines 116, 117, 130, 136: the arm of the message's variant.
Arm(m) == m.tag

\* An operation that leaves the id of its line behind.
OperationNoId(name, id) == [op |-> name, id |-> NoId, seq |-> Len(from_core)]

\* The operation pushed for the line being routed (seq: its place on the wire).
Operation(name, id) == [op |-> name, id |-> id, seq |-> Len(from_core)]

\* Message::Request arm, lines 117-129.
DispatchRequest ==
    /\ reader_pc = "dispatch" /\ Arm(msg) = "Request"
    /\ IF msg.method # "measure_width" THEN
            /\ ReaderPanics("unreachable")
            /\ UNCHANGED chanVars
       ELSE IF ~msg.valid \/ consumer_pc # "recv" THEN
            /\ ReaderPanics("unwrap")
            /\ UNCHANGED chanVars
       ELSE /\ rpc_chan' = ChanSend(rpc_chan, Operation("MeasureWidth", msg.id))
            /\ reader_pc' = "read"
            /\ msg' = NoMsg
            /\ UNCHANGED <<reader_fault, poisoned, lock_held, delivered, consumer_pc>>
    /\ UNCHANGED <<from_core, answered, pending_requests, calls>>
    /\ UNCHANGED callerVars
    /\ UNCHANGED outsideVars

\* Message::Response arm, lines 130-132: lock the table and remove the entry.
DispatchResponse ==
    /\ reader_pc = "dispatch" /\ Arm(msg) = "Response"
    /\ ~lock_held
    /\ IF Lookup(pending_requests, msg.id) = NoFrame
       THEN /\ reader_pc' = "read"
            /\ msg' = NoMsg
            /\ UNCHANGED <<pending_requests, lock_held>>
       ELSE /\ pending_requests' = Remove(pending_requests, msg.id)
            /\ lock_held' = GuardHeldDuringCall
            /\ reader_pc' = "call"
            /\ msg' = [tag |-> "Call", cb |-> Lookup(pending_requests, msg.id),
                       result |-> msg.result, nested |-> NoFrame]
    /\ UNCHANGED <<from_core, answered, reader_fault, poisoned, calls>>
    /\ UNCHANGED callerVars /\ UNCHANGED chanVars
    /\ UNCHANGED outsideVars

\* cb.call(result), line 133: the callback body runs on the reader thread.
\* A plain callback returns and the if let ends; a resend callback goes on
\* to send_request on the clone of the handle it captured.
CallCallback ==
    /\ reader_pc = "call"
    /\ calls' = Append(calls, <<msg.cb, msg.result>>)
    /\ IF msg.cb.cb = "resend"
       THEN /\ reader_pc' = "cb_body"
            /\ UNCHANGED <<msg, lock_held>>
       ELSE /\ reader_pc' = "read"
            /\ msg' = NoMsg
            /\ lock_held' = FALSE
    /\ UNCHANGED <<from_core, answered, reader_fault, poisoned, pending_requests>>
    /\ UNCHANGED callerVars /\ UNCHANGED chanVars
    /\ UNCHANGED outsideVars

\* send_request inside a callback, lines 225-232.  The captured clone was
\* made before the outer send_request, so its counter is the outer id.
CallbackSendBody ==
    /\ reader_pc = "cb_body"
    /\ IF engine_alive
       THEN /\ sent' = sent \cup {RequestFrame(0, msg.cb.id, "plain")}
            /\ Write(BodyChunk(RequestFrame(0, msg.cb.id, "plain")))
            /\ msg' = [msg EXCEPT !.nested = RequestFrame(0, msg.cb.id, "plain")]
            /\ reader_pc' = "cb_nl"
            /\ UNCHANGED <<reader_fault, poisoned, lock_held>>
       ELSE /\ ReaderPanics("write")
            /\ UNCHANGED <<sent, to_core, core_lines>>
    /\ UNCHANGED <<handles, current_request_id, pc, cur>>
    /\ UNCHANGED <<from_core, answered, pending_requests, calls>>
    /\ UNCHANGED chanVars
    /\ UNCHANGED outsideVars

\* send_request inside a callback, lines 233-234.
CallbackSendNl ==
    /\ reader_pc = "cb_nl"
    /\ IF engine_alive
       THEN /\ Write(NlChunk(msg.nested))
            /\ reader_pc' = "cb_insert"
            /\ UNCHANGED <<msg, reader_fault, poisoned, lock_held>>
       ELSE /\ ReaderPanics("write")
            /\ UNCHANGED <<to_core, core_lines>>
    /\ UNCHANGED <<handles, current_request_id, pc, cur, sent>>
    /\ UNCHANGED <<from_core, answered, pending_requests, calls>>
    /\ UNCHANGED chanVars
    /\ UNCHANGED outsideVars

\* send_request inside a callback, lines 235-238: lock() on the thread that
\* holds the guard does not return: it blocks for ever or panics.
CallbackInsert ==
    /\ reader_pc = "cb_insert"
    /\ IF lock_held
       THEN /\ \/ /\ reader_pc' = "deadlocked"
                  /\ UNCHANGED <<msg, reader_fault, poisoned, lock_held>>
               \/ ReaderPanics("relock")
            /\ UNCHANGED pending_requests
       ELSE /\ pending_requests' =
                   Insert(pending_requests, msg.nested.id, msg.nested)
            /\ reader_pc' = "read"
            /\ msg' = NoMsg
            /\ UNCHANGED <<reader_fault, poisoned, lock_held>>
    /\ UNCHANGED <<from_core, answered, calls>>
    /\ UNCHANGED callerVars /\ UNCHANGED chanVars
    /\ UNCHANGED outsideVars

\* Message::Notification arm, lines 136-142, with Client::handle_notification.
DispatchNotification ==
    /\ reader_pc = "dispatch" /\ Arm(msg) = "Notification"
    /\ IF Routed(msg.method) = "unreachable" THEN
            /\ ReaderPanics("unreachable")
            /\ UNCHANGED chanVars
       ELSE IF ~msg.valid THEN
            /\ ReaderPanics("unwrap")
            /\ UNCHANGED chanVars
       ELSE /\ IF consumer_pc = "recv"
               THEN rpc_chan' = ChanSend(rpc_chan, Operation(Routed(msg.method), NoId))
               ELSE UNCHANGED rpc_chan
            /\ reader_pc' = "read"
            /\ msg' = NoMsg
            /\ UNCHANGED <<reader_fault, poisoned, lock_held, delivered, consumer_pc>>
    /\ UNCHANGED <<from_core, answered, pending_requests, calls>>
    /\ UNCHANGED callerVars
    /\ UNCHANGED outsideVars

----------------------------------------------------------------------------
(* The consumer thread of main, src/main.rs lines 136-148 *)

\* rpc_receiver.recv() returns Ok: the operation is submitted to the UI.
ConsumerRecv ==
    /\ consumer_pc = "recv"
    /\ rpc_chan # <<>>
    /\ delivered' = Append(delivered, ChanRecv(rpc_chan)[1])
    /\ rpc_chan' = ChanRecv(rpc_chan)[2]
    /\ UNCHANGED <<consumer_pc, pending_requests, lock_held, poisoned, calls>>
    /\ UNCHANGED callerVars /\ UNCHANGED readerVars
    /\ UNCHANGED outsideVars

\* rpc_receiver.recv() returns Err once the channel is empty and rpc_sender
\* is dropped (the reader thread has ended): the consumer panics.
ConsumerDisconnected ==
    /\ consumer_pc = "recv"
    /\ rpc_chan = <<>>
    /\ ReaderEnded
    /\ consumer_pc' = "panicked"
    /\ UNCHANGED <<rpc_chan, delivered, pending_requests, lock_held, poisoned, calls>>
    /\ UNCHANGED callerVars /\ UNCHANGED readerVars
    /\ UNCHANGED outsideVars

\* Client::default(), lines 62-71, in place of Client::new(): the engine
\* thread is started, but no reader thread is spawned and the read half
\* of the inbound pipe, the local _receiver, is dropped when default
\* returns.  AppState::default builds its core this way.
ClientDefault ==
    /\ reader_pc = "read" /\ from_core = <<>>
    /\ sent = {} /\ handles = {1}
    /\ reader_pc' = "none"
    /\ UNCHANGED <<from_core, msg, reader_fault, answered>>
    /\ UNCHANGED <<pending_requests, lock_held, poisoned, calls>>
    /\ UNCHANGED callerVars /\ UNCHANGED chanVars
    /\ UNCHANGED outsideVars

\* The engine answers a request of a handle that has no reader thread: its
\* write on the inbound pipe fails or stays in the pipe, nothing reads it.
EngineAnswersUnread(f) ==
    /\ reader_pc = "none"
    /\ engine_alive
    /\ f \in Received \ answered
    /\ answered' = answered \cup {f}
    /\ UNCHANGED <<from_core, reader_pc, msg, reader_fault>>
    /\ UNCHANGED <<pending_requests, lock_held, poisoned, calls>>
    /\ UNCHANGED callerVars /\ UNCHANGED chanVars
    /\ UNCHANGED outsideVars

\* The engine thread of start_xi_thread (line 157) ends: mainloop returns
\* or panics, and to_core_rx, the read end of the outbound pipe, is dropped.
EngineStops ==
    /\ engine_alive
    /\ engine_alive' = FALSE
    /\ UNCHANGED codec /\ UNCHANGED watcherVars /\ UNCHANGED editorVars /\ UNCHANGED lockVars
    /\ UNCHANGED <<pending_requests, lock_held, poisoned, calls>>
    /\ UNCHANGED callerVars /\ UNCHANGED readerVars /\ UNCHANGED chanVars

----------------------------------------------------------------------------
(* The file watcher, src/print/watcher.rs.  A path is the sequence of its   *)
(* components; the tree has the directories a and a/b and files in them.    *)

Tokens == {1, 2}

\* The components of the path with ".." resolved against the one before.
RECURSIVE Resolve(_, _)
Resolve(done, rest) ==
    IF rest = <<>> THEN done
    ELSE IF Head(rest) = ".." /\ done # <<>>
         THEN Resolve(SubSeq(done, 1, Len(done) - 1), Tail(rest))
         ELSE Resolve(Append(done, Head(rest)), Tail(rest))

\* Path::canonicalize: "." components go and ".." components are resolved;
\* a path that does not exist fails.
Canonicalize(raw) ==
    IF \E i \in 1..Len(raw) : raw[i] = "missing"
    THEN [ok |-> FALSE]
    ELSE [ok |-> TRUE, path |-> Resolve(<<>>, SelectSeq(raw, LAMBDA c : c # "."))]

\* w.path == path, line 177: PathBuf == &Path compares the components of
\* the two paths, which leave "." out and keep "..".
PathEq(p, q) == SelectSeq(p, LAMBDA c : c # ".") = SelectSeq(q, LAMBDA c : c # ".")

\* Path::starts_with: q is a prefix of p by components.
StartsWith(p, q) == Len(q) <= Len(p) /\ SubSeq(p, 1, Len(q)) = q

\* path.parent() == Some(dir)
ParentIs(path, dir) == path # <<>> /\ SubSeq(path, 1, Len(path) - 1) = dir

\* The predicates given to watch_filtered: "rs" accepts the .rs files.
Filter(name, path) ==
    name = "rs" => (path # <<>> /\ path[Len(path)] \in {"m.rs", "k.rs"})

\* A predicate that is not consulted.
AppliesToPathUnfiltered(w, path) ==
    IF StartsWith(path, w.path)
    THEN (w.recursive \/ w.path = path) \/ ParentIs(path, w.path)
    ELSE FALSE

\* Watchee::applies_to_path, lines 259-271.
AppliesToPath(w, path) ==
    LET general_case ==
            IF StartsWith(path, w.path)
            THEN (w.recursive \/ w.path = path) \/ ParentIs(path, w.path)
            ELSE FALSE
    IN  IF w.filter # "none"
        THEN general_case /\ Filter(w.filter, path)
        ELSE general_case

\* A match whose rename arm looks at the path the file had before only.
WantsEventFromOnly(w, event) ==
    CASE event.kind \in {"Create(Any)", "Remove(Any)", "Modify(Any)", "Modify(Metadata(Any))"} ->
             IF Len(event.paths) = 1
             THEN AppliesToPath(w, event.paths[1])
             ELSE FALSE
      [] event.kind = "Modify(Name(Both))" ->
             IF Len(event.paths) = 2
             THEN AppliesToPath(w, event.paths[1])
             ELSE FALSE
      [] OTHER -> FALSE

\* Watchee::wants_event, lines 226-257.
WantsEvent(w, event) ==
    CASE event.kind \in {"Create(Any)", "Remove(Any)", "Modify(Any)", "Modify(Metadata(Any))"} ->
             IF Len(event.paths) = 1
             THEN AppliesToPath(w, event.paths[1])
             ELSE FALSE
      [] event.kind = "Modify(Name(Both))" ->
             IF Len(event.paths) = 2
             THEN AppliesToPath(w, event.paths[1]) \/ AppliesToPath(w, event.paths[2])
             ELSE FALSE
      [] OTHER -> FALSE

\* watchees.iter().filter(wants_event).map(token).for_each(push_back),
\* lines 108-112: the pairs pushed for an event, in the order of the Vec.
Pushed(ws, event) ==
    LET wanting == SelectSeq(ws, LAMBDA w : WantsEvent(w, event))
    IN  [i \in 1..Len(wanting) |-> <<wanting[i].token, event>>]

\* The underlying watcher: watch(path, mode) sets the mode of the path.
InnerWatch(in, path, recursive) ==
    {e \in in : e[1] # path} \cup {<<path, recursive>>}

\* The underlying watcher: unwatch(path); on some platforms the watches
\* below a recursive watch go with it.
InnerUnwatch(in, path, drops_below) ==
    {e \in in : e[1] # path /\ ~(drops_below /\ StartsWith(e[1], path))}

\* for (path, mode) in to_add { inner.watch(&path, mode) }, lines 205-209.
RECURSIVE WatchAll(_, _)
WatchAll(in, ws) ==
    IF ws = <<>> THEN in
    ELSE WatchAll(InnerWatch(in, Head(ws).path, Head(ws).recursive), Tail(ws))

\* The underlying watcher reports an event on a path it watches.
InnerReports(paths) ==
    \E e \in inner : \E i \in 1..Len(paths) :
        \/ paths[i] = e[1]
        \/ ParentIs(paths[i], e[1])
        \/ e[2] /\ StartsWith(paths[i], e[1])

\* watch / watch_filtered through watch_impl, lines 142-169.
WatchImpl(raw, recursive, token, filter) ==
    /\ Len(watchees) < MaxWatchees
    /\ IF ~Canonicalize(raw).ok
       THEN UNCHANGED <<watchees, inner>>
       ELSE LET w == [path |-> Canonicalize(raw).path, recursive |-> recursive,
                      token |-> token, filter |-> filter]
            IN  /\ inner' =
                       IF ~(\E i \in 1..Len(watchees) : w.path = watchees[i].path)
                       THEN InnerWatch(inner, w.path, w.recursive)
                       ELSE inner
                /\ watchees' = Append(watchees, w)
    /\ last_call' = [op |-> "watch", raw |-> raw, token |-> token,
                     accepted |-> Canonicalize(raw).ok, prior |-> watchees]
    /\ UNCHANGED <<events, taken, fs_log, last_removed, wants, watcher_pc>>
    /\ UNCHANGED clientVars

\* A removal that takes every watchee of the token out.
RemoveAllOfToken(ws, idx) == SelectSeq(ws, LAMBDA w : w.token # ws[idx].token)

\* Vec::remove(idx): the elements after idx move up.
RemoveAt(ws, idx) ==
    [i \in 1..(Len(ws) - 1) |-> IF i < idx THEN ws[i] ELSE ws[i + 1]]

\* unwatch, lines 174-211; without a watchee of the token and the path the
\* call changes nothing.
Unwatch(path, token) ==
    LET found == {i \in 1..Len(watchees) :
                      watchees[i].token = token /\ PathEq(watchees[i].path, path)}
    IN  /\ IF found = {}
           THEN UNCHANGED <<watchees, inner, last_removed>>
           ELSE LET idx == CHOOSE i \in found : \A j \in found : i <= j
                    removed == watchees[idx]
                    left == RemoveAt(watchees, idx)
                    last == ~(\E i \in 1..Len(left) : left[i].path = removed.path)
                    to_add == SelectSeq(left, LAMBDA w : StartsWith(w.path, removed.path))
                IN  /\ watchees' = left
                    /\ last_removed' = removed
                    /\ \E drops_below \in {removed.recursive, FALSE} :
                           inner' =
                               LET after == IF last
                                            THEN InnerUnwatch(inner, removed.path, drops_below)
                                            ELSE inner
                               IN  IF removed.recursive THEN WatchAll(after, to_add) ELSE after
        /\ last_call' = [op |-> "unwatch", raw |-> path, token |-> token]
        /\ UNCHANGED <<events, taken, fs_log, wants, watcher_pc>>
        /\ UNCHANGED clientVars

\* The next Event of the underlying watcher (seq tells two reports apart).
FsEvent(kind, paths) == [kind |-> kind, paths |-> paths, seq |-> Len(fs_log) + 1]

\* The watcher thread, lines 103-116: recv returns Ok(Ok(event)); under the
\* lock the event is queued for every watchee that wants it.
WatcherEvent(kind, paths) ==
    /\ watcher_pc = "recv"
    /\ Len(fs_log) < MaxFsEvents
    /\ InnerReports(paths)
    /\ fs_log' = Append(fs_log, FsEvent(kind, paths))
    /\ events' = events \o Pushed(watchees, FsEvent(kind, paths))
    /\ UNCHANGED <<watchees, inner, taken, last_removed, last_call, wants, watcher_pc>>
    /\ UNCHANGED clientVars

\* The watcher thread, line 104: recv returns Ok(Err(e)), an error result of
\* the underlying watcher; the pattern of the while let does not match and
\* the thread leaves its loop and ends.
WatcherError ==
    /\ watcher_pc = "recv"
    /\ Len(fs_log) < MaxFsEvents
    /\ fs_log' = Append(fs_log, FsEvent("Err", <<>>))
    /\ watcher_pc' = "ended"
    /\ UNCHANGED <<watchees, inner, events, taken, last_removed, last_call, wants>>
    /\ UNCHANGED clientVars

\* The callback of the underlying watcher, lines 98-100, once the thread
\* has ended: the result is sent (or the send fails, which is ignored) and
\* nothing receives it.
EventAfterEnd(kind, paths) ==
    /\ watcher_pc = "ended"
    /\ Len(fs_log) < MaxFsEvents
    /\ InnerReports(paths)
    /\ fs_log' = Append(fs_log, FsEvent(kind, paths))
    /\ UNCHANGED <<watchees, inner, events, taken, last_removed, last_call, wants,
                   watcher_pc>>
    /\ UNCHANGED clientVars

\* A take that hands out a copy and leaves the queue as it is.
ReplaceKeeps(queue) == <<queue, queue>>

\* mem::replace(events, VecDeque::new()): what is returned, what is left.
Replace(queue) == <<queue, <<>>>>

\* take_events, lines 216-221.
TakeEvents ==
    /\ events # <<>>
    /\ taken' = taken \o Replace(events)[1]
    /\ events' = Replace(events)[2]
    /\ UNCHANGED <<watchees, inner, fs_log, last_removed, last_call, wants, watcher_pc>>
    /\ UNCHANGED clientVars

----------------------------------------------------------------------------
(* The UI thread of src/app_state.rs on the handle in AppState.core, and    *)
(* the callback req_new_view registers.  lock() waits while another thread  *)
(* holds the mutex; a guard is dropped when its scope ends or unwinds.      *)

\* A callback that locks the Client mutex.
CallbackLockCore == "core"

\* view.lock().unwrap() in the callback of req_new_view, line 145.
CallbackLock == "view"

\* What the engine answers new_view with: a view id, null, another JSON
\* value, or an error.
ViewIds == {"view-id-1", "view-id-2"}
ViewResults == ViewIds \cup {"null", "number", "error"}

\* The UI thread calls handle_event or req_new_view.
UiCall(fn) ==
    /\ ui_pc = "idle" /\ pc[1] = "idle"
    /\ ui_pc' = fn
    /\ UNCHANGED mutex
    /\ UNCHANGED <<pending_requests, lock_held, poisoned, calls, engine_alive, codec>>
    /\ UNCHANGED callerVars /\ UNCHANGED readerVars /\ UNCHANGED chanVars
    /\ UNCHANGED watcherVars /\ UNCHANGED editorVars
    /\ UNCHANGED view_core

\* self.core.lock().unwrap(), lines 140 and 213.
LockCore ==
    /\ ui_pc \in {"handle_event", "req_new_view"}
    /\ mutex.core = Free
    /\ mutex' = [mutex EXCEPT !.core = "ui"]
    /\ ui_pc' = IF ui_pc = "handle_event" THEN "he_core" ELSE "nv_core"
    /\ UNCHANGED <<pending_requests, lock_held, poisoned, calls, engine_alive, codec>>
    /\ UNCHANGED callerVars /\ UNCHANGED readerVars /\ UNCHANGED chanVars
    /\ UNCHANGED watcherVars /\ UNCHANGED editorVars
    /\ UNCHANGED view_core

\* handle_event, line 214: self.view.lock().unwrap() with the core guard held.
HandleEventLockView ==
    /\ ui_pc = "he_core"
    /\ mutex.view = Free
    /\ mutex' = [mutex EXCEPT !.view = "ui"]
    /\ ui_pc' = "he_body"
    /\ UNCHANGED <<pending_requests, lock_held, poisoned, calls, engine_alive, codec>>
    /\ UNCHANGED callerVars /\ UNCHANGED readerVars /\ UNCHANGED chanVars
    /\ UNCHANGED watcherVars /\ UNCHANGED editorVars
    /\ UNCHANGED view_core

\* handle_event, the AvailableLanguages arm, lines 222-232:
\* core.send_notification under both guards; its first write.
HandleEventSend ==
    /\ ui_pc = "he_body" /\ pc[1] = "idle"
    /\ SendsUsed < MaxSends
    /\ cur' = [cur EXCEPT ![1] = NotificationFrame(1)]
    /\ IF engine_alive
       THEN /\ sent' = sent \cup {NotificationFrame(1)}
            /\ Write(BodyChunk(NotificationFrame(1)))
            /\ pc' = [pc EXCEPT ![1] = "n_nl"]
       ELSE WriteFails(1)
    /\ ui_pc' = "he_sent"
    /\ UNCHANGED mutex
    /\ UNCHANGED <<handles, current_request_id, pending_requests, lock_held, poisoned,
                   calls, engine_alive, codec>>
    /\ UNCHANGED readerVars /\ UNCHANGED chanVars
    /\ UNCHANGED watcherVars /\ UNCHANGED editorVars
    /\ UNCHANGED view_core

\* The rest of send_notification inside handle_event.
HandleEventSendNl ==
    /\ ui_pc = "he_sent"
    /\ SendNotificationNl(1)

\* handle_event returns, line 260: the view guard and the core guard drop.
HandleEventReturn ==
    /\ ui_pc \in {"he_body", "he_sent"} /\ pc[1] = "idle"
    /\ mutex' = [mutex EXCEPT !.view = Free, !.core = Free]
    /\ ui_pc' = "idle"
    /\ UNCHANGED <<pending_requests, lock_held, poisoned, calls, engine_alive, codec>>
    /\ UNCHANGED callerVars /\ UNCHANGED readerVars /\ UNCHANGED chanVars
    /\ UNCHANGED watcherVars /\ UNCHANGED editorVars
    /\ UNCHANGED view_core

\* req_new_view, line 141: core.new_view -> send_request with the callback
\* of lines 141-157, under the core guard; its first write.
ReqNewViewSend ==
    /\ ui_pc = "nv_core" /\ pc[1] = "idle"
    /\ SendsUsed < MaxSends
    /\ cur' = [cur EXCEPT ![1] = RequestFrame(1, current_request_id[1], "new_view")]
    /\ IF engine_alive
       THEN /\ sent' = sent \cup {RequestFrame(1, current_request_id[1], "new_view")}
            /\ Write(BodyChunk(RequestFrame(1, current_request_id[1], "new_view")))
            /\ pc' = [pc EXCEPT ![1] = "r_nl"]
       ELSE WriteFails(1)
    /\ ui_pc' = "nv_sent"
    /\ UNCHANGED mutex
    /\ UNCHANGED <<handles, current_request_id, pending_requests, lock_held, poisoned,
                   calls, engine_alive, codec>>
    /\ UNCHANGED readerVars /\ UNCHANGED chanVars
    /\ UNCHANGED watcherVars /\ UNCHANGED editorVars
    /\ UNCHANGED view_core

\* The rest of send_request inside req_new_view: the newline, then the
\* table's lock and the insert.
ReqNewViewSendNl ==
    /\ ui_pc = "nv_sent"
    /\ SendRequestNl(1)

ReqNewViewInsert ==
    /\ ui_pc = "nv_sent"
    /\ SendRequestInsert(1)

\* req_new_view returns, line 158: the core guard drops.
ReqNewViewReturn ==
    /\ ui_pc = "nv_sent" /\ pc[1] = "idle"
    /\ mutex' = [mutex EXCEPT !.core = Free]
    /\ ui_pc' = "idle"
    /\ UNCHANGED <<pending_requests, lock_held, poisoned, calls, engine_alive, codec>>
    /\ UNCHANGED callerVars /\ UNCHANGED readerVars /\ UNCHANGED chanVars
    /\ UNCHANGED watcherVars /\ UNCHANGED editorVars
    /\ UNCHANGED view_core

\* A panic inside send_* unwinds the UI thread: its guards drop.
UiUnwinds ==
    /\ ui_pc \notin {"idle", "panicked"}
    /\ pc[1] \in {"panicked", "write_panicked"}
    /\ mutex' = [n \in DOMAIN mutex |-> IF mutex[n] = "ui" THEN Free ELSE mutex[n]]
    /\ ui_pc' = "panicked"
    /\ UNCHANGED <<pending_requests, lock_held, poisoned, calls, engine_alive, codec>>
    /\ UNCHANGED callerVars /\ UNCHANGED readerVars /\ UNCHANGED chanVars
    /\ UNCHANGED watcherVars /\ UNCHANGED editorVars
    /\ UNCHANGED view_core

\* cb.call(result) on the callback of req_new_view, lines 141-144, run by
\* the reader thread under the table's guard: an Err result and a null id
\* return at once, a value that is no Option<String> makes unwrap() panic,
\* a view id goes on to the view mutex.
NewViewCallback(val) ==
    /\ reader_pc = "call" /\ msg.cb.cb = "new_view"
    /\ calls' = Append(calls, <<msg.cb, msg.result>>)
    /\ CASE val = "number" -> ReaderPanics("callback")
         [] val \in ViewIds ->
                /\ reader_pc' = "cb_lock"
                /\ msg' = [tag |-> "Call", cb |-> msg.cb, result |-> msg.result,
                           nested |-> msg.nested, view_id |-> val]
                /\ UNCHANGED <<reader_fault, poisoned, lock_held>>
         [] OTHER ->
                /\ reader_pc' = "read"
                /\ msg' = NoMsg
                /\ lock_held' = FALSE
                /\ UNCHANGED <<reader_fault, poisoned>>
    /\ UNCHANGED <<from_core, answered, pending_requests, engine_alive, codec>>
    /\ UNCHANGED callerVars /\ UNCHANGED chanVars
    /\ UNCHANGED watcherVars /\ UNCHANGED editorVars /\ UNCHANGED lockVars

\* The callback, line 145: view.lock().unwrap().
NewViewCallbackLock ==
    /\ reader_pc = "cb_lock"
    /\ mutex[CallbackLock] = Free
    /\ mutex' = [mutex EXCEPT ![CallbackLock] = "reader"]
    /\ reader_pc' = "cb_view"
    /\ UNCHANGED ui_pc
    /\ UNCHANGED <<from_core, msg, reader_fault, answered>>
    /\ UNCHANGED <<pending_requests, lock_held, poisoned, calls, engine_alive, codec>>
    /\ UNCHANGED callerVars /\ UNCHANGED chanVars
    /\ UNCHANGED watcherVars /\ UNCHANGED editorVars
    /\ UNCHANGED view_core

\* A callback that focuses the view and does not insert it.
FocusOnly(vc, view_id, filename) == [focused |-> view_id, views |-> vc.views]

\* The callback, lines 147-154: state.focused = Some(view_id) and
\* state.views.insert(view_id, ViewState { id: 0, filename }); the map keeps
\* one entry per key.
FocusAndInsert(vc, view_id, filename) ==
    [focused |-> view_id,
     views |-> {e \in vc.views : e[1] # view_id} \cup {<<view_id, filename>>}]

\* The callback, lines 147-155, and its return: the view is updated, the
\* view guard drops, then the table's guard at the end of the if let.
NewViewCallbackReturn ==
    /\ reader_pc = "cb_view"
    /\ view_core' = FocusAndInsert(view_core, msg.view_id, msg.cb.n)
    /\ mutex' = [mutex EXCEPT ![CallbackLock] = Free]
    /\ lock_held' = FALSE
    /\ reader_pc' = "read"
    /\ msg' = NoMsg
    /\ UNCHANGED ui_pc
    /\ UNCHANGED <<from_core, reader_fault, answered>>
    /\ UNCHANGED <<pending_requests, poisoned, calls, engine_alive, codec>>
    /\ UNCHANGED callerVars /\ UNCHANGED chanVars
    /\ UNCHANGED watcherVars /\ UNCHANGED editorVars

----------------------------------------------------------------------------
(* The editor: open_file of src/app_state.rs, save_file of                  *)
(* src/app_delegate.rs and the text box bound to Workspace::input_text.     *)
(* A text is a sequence of characters, a file a sequence of bytes.          *)

\* String::from_utf8_lossy: a byte that is not UTF-8 becomes U+FFFD.
FromUtf8Lossy(bytes) ==
    [i \in 1..Len(bytes) |->
        IF bytes[i] \in {"ff", "efbfbd"} THEN "U+FFFD" ELSE bytes[i]]

\* str::as_bytes: the UTF-8 encoding of the text.
AsBytes(text) ==
    [i \in 1..Len(text) |-> IF text[i] = "U+FFFD" THEN "efbfbd" ELSE text[i]]

\* OpenOptions read, write, create (no truncate, no append) and write_all:
\* the bytes go over the beginning of the file, what was behind them stays.
FileWrite(old, bytes) ==
    IF Len(bytes) >= Len(old) THEN bytes
    ELSE bytes \o SubSeq(old, Len(bytes) + 1, Len(old))

\* save_file, line 73: data.workspace.input_text == data.workspace.origin_text;
\* origin_text is set by Workspace::default only (app_state.rs:314).
Unchanged(ws) == ws.input_text = ws.origin_text

\* open_file, lines 114-132: the file is read, its text goes to input_text,
\* then req_new_view is called.
OpenFileLoad(path) ==
    /\ ui_pc = "idle" /\ pc[1] = "idle" /\ opening = NoFile
    /\ SendsUsed < MaxSends
    /\ workspace' = [workspace EXCEPT !.input_text = FromUtf8Lossy(disk[path]),
                                      !.current_file = path]
    /\ loaded' = FromUtf8Lossy(disk[path])
    /\ opening' = path
    /\ last_cmd' = [cmd |-> "open", wrote |-> FALSE]
    /\ ui_pc' = "req_new_view"
    /\ UNCHANGED <<current_file, disk, mutex, view_core>>
    /\ UNCHANGED <<pending_requests, lock_held, poisoned, calls, engine_alive, codec>>
    /\ UNCHANGED callerVars /\ UNCHANGED readerVars /\ UNCHANGED chanVars
    /\ UNCHANGED watcherVars

\* open_file, lines 134-135, after req_new_view has returned:
\* self.current_file = path; save_global_config writes the configuration
\* with an empty workspace.
OpenFileTail ==
    /\ ui_pc = "idle" /\ opening # NoFile
    /\ current_file' = opening
    /\ opening' = NoFile
    /\ UNCHANGED <<workspace, disk, loaded, last_cmd>>
    /\ UNCHANGED lockVars
    /\ UNCHANGED <<pending_requests, lock_held, poisoned, calls, engine_alive, codec>>
    /\ UNCHANGED callerVars /\ UNCHANGED readerVars /\ UNCHANGED chanVars
    /\ UNCHANGED watcherVars

\* The text box, src/print/text_edit_view.rs line 29: the user changes the
\* text, which is Workspace::input_text through the lens.
Edit(text) ==
    /\ ui_pc = "idle" /\ opening = NoFile
    /\ text # workspace.input_text
    /\ workspace' = [workspace EXCEPT !.input_text = text]
    /\ last_cmd' = [cmd |-> "edit", wrote |-> FALSE]
    /\ UNCHANGED <<current_file, opening, disk, loaded>>
    /\ UNCHANGED lockVars
    /\ UNCHANGED <<pending_requests, lock_held, poisoned, calls, engine_alive, codec>>
    /\ UNCHANGED callerVars /\ UNCHANGED readerVars /\ UNCHANGED chanVars
    /\ UNCHANGED watcherVars

\* The SAVE_FILE command, app_delegate.rs lines 62-92.
SaveFile ==
    /\ ui_pc = "idle" /\ opening = NoFile
    /\ IF current_file = NoFile \/ Unchanged(workspace)
       THEN /\ last_cmd' = [cmd |-> "save", wrote |-> FALSE]
            /\ UNCHANGED disk
       ELSE /\ disk' = [disk EXCEPT
                           ![current_file] = FileWrite(@, AsBytes(workspace.input_text))]
            /\ last_cmd' = [cmd |-> "save", wrote |-> TRUE]
    /\ UNCHANGED <<workspace, current_file, opening, loaded>>
    /\ UNCHANGED lockVars
    /\ UNCHANGED <<pending_requests, lock_held, poisoned, calls, engine_alive, codec>>
    /\ UNCHANGED callerVars /\ UNCHANGED readerVars /\ UNCHANGED chanVars
    /\ UNCHANGED watcherVars

----------------------------------------------------------------------------

Next ==
    \/ \E h, h2 \in Handles : Clone(h, h2)
    \/ \E h \in Handles : SendNotificationBody(h)
    \/ \E h \in Handles : SendNotificationNl(h)
    \/ \E h \in Handles, cb \in {"plain", "resend"} : SendRequestBody(h, cb)
    \/ \E h \in Handles : SendRequestNl(h)
    \/ \E h \in Handles : SendRequestInsert(h)
    \/ \E line \in EngineLines : ReadLine(line)
    \/ ReadEof
    \/ ReadError
    \/ DispatchRequest
    \/ DispatchResponse
    \/ CallCallback
    \/ CallbackSendBody
    \/ CallbackSendNl
    \/ CallbackInsert
    \/ DispatchNotification
    \/ ConsumerRecv
    \/ ConsumerDisconnected

Spec == Init /\ [][Next]_vars

\* The program as main composes it: the one handle of Client::new behind
\* Arc<Mutex<Client>>, never cloned, with callbacks that send nothing.
NextMain ==
    \/ \E h \in Handles : SendNotificationBody(h)
    \/ \E h \in Handles : SendNotificationNl(h)
    \/ \E h \in Handles : SendRequestBody(h, "plain")
    \/ \E h \in Handles : SendRequestNl(h)
    \/ \E h \in Handles : SendRequestInsert(h)
    \/ \E line \in EngineLines : ReadLine(line)
    \/ ReadEof
    \/ ReadError
    \/ DispatchRequest
    \/ DispatchResponse
    \/ CallCallback
    \/ DispatchNotification
    \/ ConsumerRecv
    \/ ConsumerDisconnected

MainSpec == Init /\ [][NextMain]_vars

\* The consumer thread is scheduled: it loops on recv for as long as it lives.
FairMainSpec == MainSpec /\ WF_vars(ConsumerRecv)

\* The program of MainSpec with an engine thread that may end at any time.
NextPipe ==
    \/ NextMain
    \/ EngineStops

PipeSpec == Init /\ [][NextPipe]_vars

\* Requests through the handle and its clones, answered by the engine.
NextClone ==
    \/ \E h, h2 \in Handles : Clone(h, h2)
    \/ \E h \in Handles : SendRequestBody(h, "plain")
    \/ \E h \in Handles : SendRequestNl(h)
    \/ \E h \in Handles : SendRequestInsert(h)
    \/ \E f \in Received \ answered : ReadLine(ResponseLine(f))
    \/ DispatchResponse
    \/ CallCallback

CloneSpec == Init /\ [][NextClone]_vars

\* A handle built by Client::new() or by Client::default(), notifications
\* and requests through it, the engine answering; every thread that
\* exists is scheduled.
NextBuilt ==
    \/ ClientDefault
    \/ SendNotificationBody(1)
    \/ SendNotificationNl(1)
    \/ SendRequestBody(1, "plain")
    \/ SendRequestNl(1)
    \/ SendRequestInsert(1)
    \/ \E f \in Received \ answered : ReadLine(ResponseLine(f))
    \/ DispatchResponse
    \/ CallCallback
    \/ \E f \in Received \ answered : EngineAnswersUnread(f)

BuiltSpec == Init /\ [][NextBuilt]_vars /\ WF_vars(NextBuilt)

\* The editor: files are opened, the text is edited and saved; the texts
\* the user types are short.
Texts == {<<>>, <<"x">>, <<"x", "y">>, <<"z">>}

NextEditor ==
    \/ \E path \in Files : OpenFileLoad(path)
    \/ LockCore
    \/ ReqNewViewSend
    \/ ReqNewViewSendNl
    \/ ReqNewViewInsert
    \/ ReqNewViewReturn
    \/ OpenFileTail
    \/ \E text \in Texts : Edit(text)
    \/ SaveFile

EditorSpec == Init /\ [][NextEditor]_vars

\* The UI thread in handle_event and req_new_view, the engine answering
\* new_view, the reader thread resolving the answers.
NextLock ==
    \/ \E fn \in {"handle_event", "req_new_view"} : UiCall(fn)
    \/ LockCore
    \/ HandleEventLockView
    \/ HandleEventSend
    \/ HandleEventSendNl
    \/ HandleEventReturn
    \/ ReqNewViewSend
    \/ ReqNewViewSendNl
    \/ ReqNewViewInsert
    \/ ReqNewViewReturn
    \/ UiUnwinds
    \/ \E f \in Received \ answered : ReadLine(ResponseLine(f))
    \/ DispatchResponse
    \/ \E val \in ViewResults : NewViewCallback(val)
    \/ NewViewCallbackLock
    \/ NewViewCallbackReturn

LockSpec == Init /\ [][NextLock]_vars

\* The reader alone on lines of every shape: a line with only an id, with
\* method and id, with only a method, a JSON object with neither, and text
\* that is not JSON.
EmptyObjectLine == Line("json", NoMethod, NoId, TRUE, NoFrame, NoFrame)

FrameLines ==
    {UnsolicitedResponse(0),
     RequestLine("measure_width", 7, TRUE),
     NotificationLine("theme_changed", TRUE),
     EmptyObjectLine,
     GarbageLine}

NextFrame ==
    \/ \E line \in FrameLines : ReadLine(line)
    \/ DispatchRequest
    \/ DispatchResponse
    \/ DispatchNotification
    \/ ConsumerRecv
    \/ ConsumerDisconnected

FrameSpec == Init /\ [][NextFrame]_vars

\* The codec alone: a frame is taken, encoded to a line, the line decoded.
TakeFrame(f) ==
    /\ codec.stage \in {"none", "decoded"}
    /\ codec' = [stage |-> "frame", frame |-> f]
    /\ UNCHANGED <<pending_requests, lock_held, poisoned, calls, engine_alive>>
    /\ UNCHANGED watcherVars /\ UNCHANGED editorVars /\ UNCHANGED lockVars
    /\ UNCHANGED callerVars /\ UNCHANGED readerVars /\ UNCHANGED chanVars

EncodeStep ==
    /\ codec.stage = "frame"
    /\ codec' = [stage |-> "wire", frame |-> codec.frame, wire |-> Encode(codec.frame)]
    /\ UNCHANGED <<pending_requests, lock_held, poisoned, calls, engine_alive>>
    /\ UNCHANGED watcherVars /\ UNCHANGED editorVars /\ UNCHANGED lockVars
    /\ UNCHANGED callerVars /\ UNCHANGED readerVars /\ UNCHANGED chanVars

DecodeStep ==
    /\ codec.stage = "wire"
    /\ codec' = [stage |-> "decoded", frame |-> codec.frame, wire |-> codec.wire,
                 out |-> DecodeObject(codec.wire)]
    /\ UNCHANGED <<pending_requests, lock_held, poisoned, calls, engine_alive>>
    /\ UNCHANGED watcherVars /\ UNCHANGED editorVars /\ UNCHANGED lockVars
    /\ UNCHANGED callerVars /\ UNCHANGED readerVars /\ UNCHANGED chanVars

NextCodec ==
    \/ \E f \in CodecFrames : TakeFrame(f)
    \/ EncodeStep
    \/ DecodeStep

CodecSpec == Init /\ [][NextCodec]_vars

\* The file watcher: watch and watch_filtered calls, file-system events,
\* take_events calls.
WatchDirs == {<<"a">>, <<"a", "b">>}

FsEvents ==
    {<<"Modify(Any)", <<<<"a", "b", "k.rs">>>>>>,
     <<"Modify(Any)", <<<<"a", "n.txt">>>>>>,
     <<"Modify(Name(Both))", <<<<"a", "n.txt">>, <<"a", "m.rs">>>>>>,
     <<"Access(Any)", <<<<"a", "m.rs">>>>>>}

NextDeliver ==
    \/ \E d \in WatchDirs, r \in BOOLEAN : WatchImpl(d, r, 1, "none")
    \/ \E d \in WatchDirs, r \in BOOLEAN : WatchImpl(d, r, 2, "rs")
    \/ \E e \in FsEvents : WatcherEvent(e[1], e[2])
    \/ TakeEvents

DeliverSpec == Init /\ [][NextDeliver]_vars

\* The same with an underlying watcher that also reports errors.
NextFaulty ==
    \/ NextDeliver
    \/ WatcherError
    \/ \E e \in FsEvents : EventAfterEnd(e[1], e[2])

FaultySpec == Init /\ [][NextFaulty]_vars

\* The registrations of the file watcher: watch and unwatch calls.
NextWatch ==
    \/ \E d \in WatchDirs, r \in BOOLEAN, t \in Tokens : WatchImpl(d, r, t, "none")
    \/ \E d \in WatchDirs, t \in Tokens : Unwatch(d, t)

WatchSpec == Init /\ [][NextWatch]_vars

\* wants_event alone, on watchees and events of every shape: every kind
\* the match names and two it does not, no path to MaxEventPaths paths, on
\* the watched directory, a child, a grandchild and a path outside.
EventKinds ==
    {"Create(Any)", "Remove(Any)", "Modify(Any)", "Modify(Metadata(Any))",
     "Modify(Name(Both))", "Modify(Name(From))", "Access(Any)"}
EventPaths ==
    {<<"a">>, <<"a", "m.rs">>, <<"a", "n.txt">>, <<"a", "b", "k.rs">>, <<"c", "m.rs">>}
PathLists == UNION {[1..n -> EventPaths] : n \in 0..MaxEventPaths}
AskedWatchees ==
    [path : {<<"a">>}, recursive : BOOLEAN, token : {1}, filter : {"none", "rs"}]

\* The watcher thread calls wants_event on a watchee and gets the answer.
AskWants(w, kind, paths) ==
    /\ ~wants.asked
    /\ wants' = [asked |-> TRUE, w |-> w, event |-> [kind |-> kind, paths |-> paths],
                 out |-> WantsEvent(w, [kind |-> kind, paths |-> paths])]
    /\ UNCHANGED <<watchees, inner, events, taken, fs_log, last_removed, last_call,
                   watcher_pc>>
    /\ UNCHANGED clientVars

\* The answer is used (filter(..), line 109) and the call is over.
WantsUsed ==
    /\ wants.asked
    /\ wants' = [asked |-> FALSE]
    /\ UNCHANGED <<watchees, inner, events, taken, fs_log, last_removed, last_call,
                   watcher_pc>>
    /\ UNCHANGED clientVars

NextWants ==
    \/ \E w \in AskedWatchees, kind \in EventKinds, paths \in PathLists :
           AskWants(w, kind, paths)
    \/ WantsUsed

WantsSpec == Init /\ [][NextWants]_vars

\* watch and unwatch calls on paths as a caller writes them: canonical,
\* through ".." (as a relative path or a symlink, a form canonicalize
\* rewrites), through ".", and a path that does not exist.
RawDirs == {<<"a">>, <<"a", "b", "..">>, <<"a", ".", "b">>, <<"missing">>}

NextInverse ==
    \/ \E d \in RawDirs, r \in BOOLEAN, t \in Tokens : WatchImpl(d, r, t, "none")
    \/ \E d \in RawDirs, t \in Tokens : Unwatch(d, t)

InverseSpec == Init /\ [][NextInverse]_vars

\* The router alone: the engine sends well-formed notifications of every
\* method of the table, the reader routes them, the consumer receives them.
RouteLines == {NotificationLine(method, TRUE) : method \in KnownMethods}

NextRoute ==
    \/ \E line \in RouteLines : ReadLine(line)
    \/ DispatchNotification
    \/ ConsumerRecv

RouteSpec == Init /\ [][NextRoute]_vars

----------------------------------------------------------------------------
(* Properties *)

Requests == {f \in sent : f.kind = "request"}

\* The results callback f was called with, as positions of calls.
CallsOf(f) == {i \in 1..Len(calls) : calls[i][1] = f}

\* The line the reader thread took last.
LastLine == from_core[Len(from_core)]

\* Every caller has returned, every request was answered (with nothing but
\* its own response on the inbound pipe) and the reader waits for a line.
Quiescent ==
    /\ \A h \in Handles : pc[h] = "idle"
    /\ reader_pc = "read"
    /\ Requests # {}
    /\ Requests \subseteq answered
    /\ \A k \in 1..Len(from_core) : from_core[k].for # NoFrame

\* C1: once every request has been answered by its one response, in any
\* order, each request's callback has been called exactly once, and with
\* the result of the response made for that request.
C1_ExactlyOnceOwnResult ==
    Quiescent =>
        \A f \in Requests :
            /\ Cardinality(CallsOf(f)) = 1
            /\ \A i \in CallsOf(f) : calls[i][2] = f

\* C2: when the reader thread routes the response the engine made for request
\* f, f's callback is in the pending-request table.
C2_RegisteredBeforeResponse ==
    (reader_pc = "dispatch" /\ msg.tag = "Response" /\ LastLine.for # NoFrame)
        => <<LastLine.for.id, LastLine.for>> \in pending_requests

\* The requests whose frame is built and whose callback has not been called.
InFlight == {f \in Requests : CallsOf(f) = {}}

\* C3: no two requests in flight carry the same id, through whichever
\* handles they were sent.
C3_InFlightIdsDistinct ==
    \A f, g \in InFlight : f # g => f.id # g.id

\* C4: no callback is called more than once, whatever lines arrive.
C4_AtMostOnce ==
    \A f \in Requests : Cardinality(CallsOf(f)) <= 1

\* C4's case: a request was resolved by its response, a later response
\* carried the same id, and the reader thread has routed it.
C4_Witness ==
    /\ reader_pc = "read"
    /\ \E j, k \in 1..Len(from_core) :
        /\ j < k
        /\ from_core[j].for # NoFrame
        /\ \E i \in CallsOf(from_core[j].for) : calls[i][2] = from_core[j].for
        /\ Decode(from_core[k]).tag = "Response"
        /\ from_core[k].id = from_core[j].id

\* C5: the guard of the table is released before a callback body runs, so
\* a callback that calls send_request returns: the reader thread neither
\* blocks for ever on the table's lock nor panics on it.
C5_CallbackMaySendRequest ==
    /\ reader_pc # "deadlocked"
    /\ reader_fault # "relock"

\* C6: a frame's body and its newline are contiguous on the outbound pipe:
\* no line holds the bodies of two frames, finished or not.
C6_FramesContiguous ==
    /\ Len(to_core) <= 1
    /\ \A l \in core_lines : Len(l) = 1

NotificationOps == RpcOperations \ {"MeasureWidth"}

\* C7: the notifications the consumer received are in the order of their
\* lines on the wire.
C7_NotificationOrder ==
    \A i, j \in 1..Len(delivered) :
        (/\ i < j
         /\ delivered[i].op \in NotificationOps
         /\ delivered[j].op \in NotificationOps)
            => delivered[i].seq < delivered[j].seq

\* C7's case: the consumer has received two notifications.
C7_Witness ==
    \E i, j \in 1..Len(delivered) :
        /\ i < j
        /\ delivered[i].op \in NotificationOps
        /\ delivered[j].op \in NotificationOps

\* The k-th inbound line is a notification that handle_notification routes
\* and the reader thread has sent on the channel.
RoutedLine(k) ==
    /\ Decode(from_core[k]).tag = "Notification"
    /\ Routed(from_core[k].method) # "unreachable"
    /\ from_core[k].valid
    /\ (k < Len(from_core) \/ reader_pc # "dispatch")

Queued == delivered \o rpc_chan

\* C8: every notification sent on the channel is received or still queued,
\* once, and what is queued can still be received: the consumer does not
\* end while the channel holds an operation.
C8_NoEventDropped ==
    /\ \A k \in 1..Len(from_core) :
        RoutedLine(k) => Cardinality({i \in 1..Len(Queued) : Queued[i].seq = k}) = 1
    /\ rpc_chan # <<>> => consumer_pc = "recv"

\* C8's case: the consumer lags two operations behind the reader thread and
\* has received an earlier one.
C8_Witness ==
    /\ Len(rpc_chan) >= 2
    /\ Len(delivered) >= 1
    /\ \A i \in 1..Len(rpc_chan) : rpc_chan[i].op \in NotificationOps

\* C8 as liveness: every routed notification is eventually received.
C8_EventuallyReceived ==
    \A k \in 1..MaxInbound :
        (k <= Len(from_core) /\ RoutedLine(k))
            ~> (\E i \in 1..Len(delivered) : delivered[i].seq = k)

\* C9: in the step that ends the reader thread, every callback in the
\* pending-request table is called.
C9_PendingFailedOnClose ==
    [][(~ReaderEnded /\ ReaderEnded') =>
           \A e \in pending_requests : \E i \in 1..Len(calls') : calls'[i][1] = e[2]]_vars

\* C10: a line that fails Message::decode does not end the reader thread.
C10_MalformedLineSurvived ==
    ~(reader_pc = "panicked" /\ reader_fault = "decode")

\* C11: a notification whose method is not in the routing table does not
\* end the reader thread: it goes on with the following lines.
C11_UnknownNotificationSurvived ==
    ~(/\ reader_pc = "panicked"
      /\ reader_fault = "unreachable"
      /\ Decode(LastLine).tag = "Notification")

\* C12: for an inbound Request the client writes one Response frame with
\* the id of the request on the outbound pipe; here, at the latest when the
\* operation has been handed to the application.
C12_RequestAnswered ==
    \A i \in 1..Len(delivered) :
        delivered[i].op = "MeasureWidth" =>
            \E f \in sent : f.kind = "response" /\ f.id = delivered[i].id

\* C13: an inbound Request whose method is not measure_width does not end
\* the reader thread (it is answered with an error Response).
C13_UnknownRequestSurvived ==
    ~(/\ reader_pc = "panicked"
      /\ reader_fault = "unreachable"
      /\ Decode(LastLine).tag = "Request")

\* C14: when the reader handles a Response whose id has no entry in the
\* table, the step changes neither the table nor the callbacks called, and
\* the reader goes on to read the next line.
C14_UnmatchedResponseDropped ==
    [][(/\ reader_pc = "dispatch"
        /\ msg.tag = "Response"
        /\ ~(\E e \in pending_requests : e[1] = msg.id)
        /\ reader_pc' # reader_pc)
       => (/\ reader_pc' = "read"
           /\ pending_requests' = pending_requests
           /\ calls' = calls
           /\ reader_fault' = reader_fault)]_vars

\* A Response with an id nobody waits for was dropped while another request
\* was waiting: its entry is still there and no callback has run.
C14_Witness ==
    /\ reader_pc = "read"
    /\ from_core # <<>>
    /\ Decode(LastLine).tag = "Response"
    /\ LastLine.for = NoFrame
    /\ pending_requests # {}
    /\ \A e \in pending_requests : e[1] # LastLine.id
    /\ calls = <<>>

\* C15: the ids written by the successive send_request calls of the
\* process are 0, 1, 2, ... in the order of the calls: the first is 0, each
\* next one is one more, and no id is written twice, also once its request
\* completed.  (It holds of the calls made through one handle that is never
\* cloned, which is MainSpec.)
C15_IdsFreshAndIncreasing ==
    /\ {f.id : f \in Requests} = 0..(Cardinality(Requests) - 1)
    /\ \A f, g \in Requests : f # g => f.id # g.id
    /\ \A f, g \in Requests : (f.h = g.h /\ f.n < g.n) => f.id < g.id

\* C16: the routing table is one-to-one.  Every method of the table has an
\* arm that builds a notification variant of RpcOperations, no two methods
\* build the same variant and every notification variant is built; on the
\* stream, two operations are the same variant exactly when their lines
\* carry the same method, each carries the params of its own line, decoded,
\* and theme_changed yields ThemeChanged.
C16_RoutingOneToOne ==
    /\ \A m \in KnownMethods : Routed(m) \in NotificationOps
    /\ \A m1, m2 \in KnownMethods : m1 # m2 => Routed(m1) # Routed(m2)
    /\ {Routed(m) : m \in KnownMethods} = NotificationOps
    /\ \A i, j \in 1..Len(Queued) :
           (Queued[i].op = Queued[j].op)
               <=> (from_core[Queued[i].seq].method = from_core[Queued[j].seq].method)
    /\ \A i \in 1..Len(Queued) :
           /\ from_core[Queued[i].seq].method \in KnownMethods
           /\ from_core[Queued[i].seq].valid
           /\ (Queued[i].op = "ThemeChanged")
                  <=> (from_core[Queued[i].seq].method = "theme_changed")

\* The consumer has received ThemeChanged for a theme_changed line and
\* AvailableThemes for an available_themes line.
C16_Witness ==
    \E i, j \in 1..Len(delivered) :
        /\ delivered[i].op = "ThemeChanged"
        /\ from_core[delivered[i].seq].method = "theme_changed"
        /\ delivered[j].op = "AvailableThemes"
        /\ from_core[delivered[j].seq].method = "available_themes"

\* C17: a notification of a known method whose params do not decode into
\* the payload type does not end the reader thread: nothing is pushed for
\* it and the following lines are read.
C17_InvalidPayloadSurvived ==
    ~(/\ reader_pc = "panicked"
      /\ reader_fault = "unwrap"
      /\ Decode(LastLine).tag = "Notification"
      /\ LastLine.method \in KnownMethods
      /\ ~LastLine.valid)

\* C18: send_notification does not panic when the write on the pipe fails;
\* it returns the failure to its caller.
C18_WriteFailureReported ==
    \A h \in handles :
        ~(pc[h] = "write_panicked" /\ cur[h].kind = "notification")

\* C19: when the reader loop has stopped, a disconnect signal (an operation
\* that is none of the sixteen of today) is on the operations stream, and
\* the consumer of the stream does not panic.
C19_DisconnectSignalled ==
    /\ consumer_pc # "panicked"
    /\ reader_pc = "stopped"
           => \E i \in 1..Len(Queued) : Queued[i].op \notin RpcOperations

\* C20: at the end of the inbound stream (read_line returns zero bytes) the
\* reader thread leaves its loop; it does not decode the empty line and
\* does not panic.
C20_EofEndsLoopCleanly ==
    ~(reader_pc = "panicked" /\ reader_fault = "eof")

\* The ids that have an entry in the pending-request table.
PendingIds == {e[1] : e \in pending_requests}

\* C21: there is no timeout.  The only step that takes an id out of the
\* pending-request table is the reader routing a Response with that id, and
\* a callback is called only when a Response with its id has arrived: an
\* entry whose Response never arrives stays for ever, uncalled.
C21_NoTimeout ==
    [][/\ \A id \in PendingIds :
              id \notin PendingIds'
                  => (reader_pc = "dispatch" /\ msg.tag = "Response" /\ msg.id = id)
       /\ calls' # calls
              => \E k \in 1..Len(from_core) :
                     /\ Decode(from_core[k]).tag = "Response"
                     /\ from_core[k].id = calls'[Len(calls')][1].id]_vars

\* The inbound stream is used up without a Response for a registered id:
\* the entry is still in the table and its callback has not been called.
C21_Witness ==
    \E e \in pending_requests :
        /\ Len(from_core) = MaxInbound
        /\ reader_pc = "read"
        /\ \A k \in 1..Len(from_core) :
               ~(Decode(from_core[k]).tag = "Response" /\ from_core[k].id = e[1])
        /\ CallsOf(e[2]) = {}

Shape(line) ==
    IF line.text # "json" THEN "Err"
    ELSE CASE line.id # NoId /\ line.method = NoMethod -> "Response"
           [] line.id # NoId /\ line.method # NoMethod -> "Request"
           [] line.id = NoId /\ line.method # NoMethod -> "Notification"
           [] OTHER -> "Err"

\* C23: classification is total and exclusive.  A line the reader takes is
\* decoded as the one variant its fields say, or is a decode error and is
\* not routed; a decoded message is routed by the one arm of its variant:
\* a Response only looks up the table, a Request only pushes MeasureWidth
\* with its id, a Notification only pushes the operation of its method.
C23_ClassifiedAndRoutedOnce ==
    [][/\ (reader_pc = "read" /\ Len(from_core') > Len(from_core)) =>
              IF Shape(from_core'[Len(from_core')]) = "Err"
              THEN reader_pc' # "dispatch"
              ELSE /\ reader_pc' = "dispatch"
                   /\ msg'.tag = Shape(from_core'[Len(from_core')])
       /\ (reader_pc = "dispatch" /\ reader_pc' # "dispatch") =>
              /\ msg.tag \in {"Response", "Request", "Notification"}
              /\ msg.tag = "Response" =>
                     /\ rpc_chan' = rpc_chan
                     /\ reader_pc' \in {"read", "call"}
              /\ msg.tag = "Request" =>
                     /\ pending_requests' = pending_requests
                     /\ reader_pc' \in {"read", "panicked"}
                     /\ reader_pc' = "read" =>
                            /\ Len(rpc_chan') = Len(rpc_chan) + 1
                            /\ rpc_chan'[Len(rpc_chan')].op = "MeasureWidth"
                            /\ rpc_chan'[Len(rpc_chan')].id = msg.id
              /\ msg.tag = "Notification" =>
                     /\ pending_requests' = pending_requests
                     /\ reader_pc' \in {"read", "panicked"}
                     /\ (reader_pc' = "read" /\ consumer_pc = "recv") =>
                            /\ Len(rpc_chan') = Len(rpc_chan) + 1
                            /\ rpc_chan'[Len(rpc_chan')].op \in NotificationOps]_vars

\* A Response, a Request and a Notification were read and each was routed
\* on its own path.
C23_Witness ==
    /\ reader_pc = "read"
    /\ \E i, j, k \in 1..Len(from_core) :
           /\ Shape(from_core[i]) = "Response"
           /\ Shape(from_core[j]) = "Request"
           /\ Shape(from_core[k]) = "Notification"
           /\ \E a, b \in 1..Len(Queued) :
                  /\ Queued[a].seq = j /\ Queued[a].op = "MeasureWidth"
                  /\ Queued[b].seq = k /\ Queued[b].op = "ThemeChanged"
           /\ \A a \in 1..Len(Queued) : Queued[a].seq # i

Returned == {f \in sent : f.h \in handles /\ pc[f.h] = "idle" /\ cur[f.h] # f}

\* C25: when a send_notification or send_request call has returned, its
\* frame is on the wire as one line of its own, flushed: the engine has the
\* line, no other line holds the frame and nothing of it waits in the pipe.
\* The frame of send_notification has no id, the one of send_request has.
C25_OneFramePerCall ==
    \A f \in Returned :
        /\ <<f>> \in core_lines
        /\ \A l \in core_lines : (\E i \in 1..Len(l) : l[i] = f) => l = <<f>>
        /\ \A i \in 1..Len(to_core) : to_core[i].f # f
        /\ (f.kind = "notification") <=> (f.id = NoId)
        /\ (f.kind = "request") <=> (f.id # NoId)

\* Every pair queued so far, in the order of queuing.
AllPairs == taken \o events

\* C26: an event is queued once per token: no event is in the queue (or in
\* what was taken from it) twice under the same token.
C26_OncePerToken ==
    \A i, j \in 1..Len(AllPairs) : i # j => AllPairs[i] # AllPairs[j]

\* The paths the underlying watcher watches.
InnerPaths(in) == {e[1] : e \in in}

\* C27: an unwatch call that finds its watchee removes that one watchee and
\* no other; the underlying watcher goes on watching every path that still
\* has a watchee, so a path leaves it only with its last watchee.
C27_UnwatchRemovesOne ==
    [][Len(watchees') < Len(watchees) =>
           /\ \E idx \in 1..Len(watchees) :
                  /\ last_removed' = watchees[idx]
                  /\ Len(watchees') = Len(watchees) - 1
                  /\ \A i \in 1..Len(watchees') :
                         watchees'[i] = IF i < idx THEN watchees[i] ELSE watchees[i + 1]
                  /\ \A i \in 1..(idx - 1) :
                         ~(/\ watchees[i].token = watchees[idx].token
                           /\ watchees[i].path = watchees[idx].path)
           /\ \A i \in 1..Len(watchees') :
                  watchees'[i].path \in InnerPaths(inner)
                      => watchees'[i].path \in InnerPaths(inner')
           /\ \A p \in InnerPaths(inner) \ InnerPaths(inner') :
                  /\ p = last_removed'.path
                  /\ \A i \in 1..Len(watchees') : watchees'[i].path # p]_vars

\* An unwatch removed one of two watchees of a path: the other one is
\* registered and the underlying watcher still watches the path.
C27_Witness ==
    /\ last_removed # NoWatchee
    /\ \E i \in 1..Len(watchees) :
           /\ watchees[i].path = last_removed.path
           /\ watchees[i].token # last_removed.token
    /\ last_removed.path \in InnerPaths(inner)

\* s is the beginning of t.
IsPrefix(s, t) == Len(s) <= Len(t) /\ SubSeq(t, 1, Len(s)) = s

\* C28: a take_events call returns the whole queue, in the order of
\* arrival, and leaves it empty; any other step leaves what was returned as
\* it is and only appends to the queue.  So every pair queued is returned by
\* exactly one call.
C28_TakeOwnsQueue ==
    [][/\ taken' # taken => (taken' = taken \o events /\ events' = <<>>)
       /\ taken' = taken => IsPrefix(events, events')]_vars

\* A call has returned pairs, and the watcher thread has queued a later
\* event since.
C28_Witness ==
    /\ taken # <<>>
    /\ events # <<>>
    /\ events[1][2].seq > taken[Len(taken)][2].seq

\* The path is the watched path or a direct child of it or, for a recursive
\* watchee, anywhere below it.
FallsUnder(w, path) ==
    /\ StartsWith(path, w.path)
    /\ (w.recursive \/ path = w.path \/ ParentIs(path, w.path))

\* The watchee is owed the event: a path of the event falls under its path
\* and, if it has a filter, satisfies the filter.
Owed(w, event) ==
    \E k \in 1..Len(event.paths) :
        /\ FallsUnder(w, event.paths[k])
        /\ w.filter # "none" => Filter(w.filter, event.paths[k])

\* The event is of a kind, and with a number of paths, the watcher delivers.
Delivered(event) ==
    \/ /\ event.kind \in {"Create(Any)", "Remove(Any)", "Modify(Any)", "Modify(Metadata(Any))"}
       /\ Len(event.paths) = 1
    \/ /\ event.kind = "Modify(Name(Both))"
       /\ Len(event.paths) = 2

\* The pairs of token t among the pairs q.
PairsOf(q, t) == {i \in 1..Len(q) : q[i][1] = t}

\* The pairs the step queued.
NewPairs == SubSeq(events', Len(events) + 1, Len(events'))

UiBlocked ==
    \/ ui_pc \in {"handle_event", "req_new_view"} /\ mutex.core # Free
    \/ ui_pc = "he_core" /\ mutex.view # Free
    \/ ui_pc = "nv_sent" /\ pc[1] = "r_insert" /\ lock_held
ReaderBlocked ==
    reader_pc = "cb_lock" /\ mutex[CallbackLock] # Free

\* C30: the Client mutex, the view mutex and the table's mutex never
\* deadlock: the UI thread and the reader thread are never both waiting
\* for a lock, and a thread that waits for a lock waits for a thread that
\* is running and holds it.
C30_NoLockDeadlock ==
    /\ UiBlocked => /\ ~ReaderBlocked
                    /\ reader_pc \notin {"read", "stopped", "panicked"}
    /\ ReaderBlocked => /\ ~UiBlocked
                        /\ ui_pc \notin {"idle", "panicked"}

\* All three locks are held: the UI thread, inside req_new_view with the
\* Client mutex, waits for the table while the reader thread runs the
\* callback of an earlier new_view under the table's guard and the view's.
C30_Witness ==
    /\ ui_pc = "nv_sent" /\ pc[1] = "r_insert"
    /\ mutex = [core |-> "ui", view |-> "reader"]
    /\ lock_held
    /\ UiBlocked

\* The k-th inbound line is a measure_width request whose params decode
\* and the reader thread is past its Request arm.
MeasureWidthLine(k) ==
    /\ Decode(from_core[k]).tag = "Request"
    /\ from_core[k].method = "measure_width"
    /\ from_core[k].valid
    /\ (k < Len(from_core) \/ reader_pc # "dispatch")

\* C31: a measure_width request is on the operations channel once, as a
\* MeasureWidth operation with the id of the request and the params of its
\* line, and the operations of the channel, MeasureWidth and notifications
\* alike, are in the order of their lines on the wire.
C31_MeasureWidthInWireOrder ==
    /\ \A k \in 1..Len(from_core) :
           MeasureWidthLine(k) =>
               /\ Cardinality({i \in 1..Len(Queued) : Queued[i].seq = k}) = 1
               /\ \A i \in 1..Len(Queued) :
                      Queued[i].seq = k =>
                          /\ Queued[i].op = "MeasureWidth"
                          /\ Queued[i].id = from_core[k].id
    /\ \A i \in 1..Len(Queued) :
           Queued[i].op = "MeasureWidth" => MeasureWidthLine(Queued[i].seq)
    /\ \A i, j \in 1..Len(Queued) : i < j => Queued[i].seq < Queued[j].seq

\* The consumer has received a notification, then MeasureWidth with the id
\* of the request, then a notification, as the lines came.
C31_Witness ==
    /\ Len(delivered) = 3
    /\ delivered[1].op \in NotificationOps /\ delivered[1].seq = 1
    /\ delivered[2].op = "MeasureWidth" /\ delivered[2].id = 7 /\ delivered[2].seq = 2
    /\ delivered[3].op \in NotificationOps /\ delivered[3].seq = 3

\* The keys of ViewCore.views.
ViewKeys(vc) == {e[1] : e \in vc.views}

\* C32: ViewCore stays consistent: a focused view is a key of views, with
\* one entry per key; focused and views change only when the callback of
\* a new_view that was answered with a view id runs its body, which
\* focuses that id and inserts it with the file name of its request; an
\* error, a null id or any other step changes neither.
C32_ViewCoreConsistent ==
    [][/\ view_core'.focused # NoView => view_core'.focused \in ViewKeys(view_core')
       /\ Cardinality(ViewKeys(view_core')) = Cardinality(view_core'.views)
       /\ view_core' # view_core =>
              /\ reader_pc = "cb_view"
              /\ msg.view_id \in ViewIds
              /\ view_core'.focused = msg.view_id
              /\ <<msg.view_id, msg.cb.n>> \in view_core'.views
              /\ ViewKeys(view_core') = ViewKeys(view_core) \cup {msg.view_id}
       /\ (reader_pc = "call" /\ reader_pc' \in {"read", "panicked"}) =>
              view_core' = view_core]_vars

\* Two new_view requests were answered with a view id each, the second
\* request first: both views are there and the one answered last, the
\* view of the first request, is focused.
C32_Witness ==
    /\ ViewKeys(view_core) = ViewIds
    /\ Len(calls) = 2
    /\ calls[1][1].n = 2 /\ calls[2][1].n = 1
    /\ <<view_core.focused, 1>> \in view_core.views

\* The underlying watcher watches the path, recursively if asked: it has
\* the path in the mode, or a recursive watch on a path above it.
Watched(path, recursive) ==
    \E e \in inner :
        \/ e[1] = path /\ (recursive => e[2])
        \/ e[2] /\ StartsWith(path, e[1])

\* C33: every registered watchee's path is watched by the underlying
\* watcher, and recursively if the watchee is recursive.
C33_WatcheesAreWatched ==
    \A i \in 1..Len(watchees) : Watched(watchees[i].path, watchees[i].recursive)

\* C34: unwatch(p, t) right after a watch(p, recursive, t) that accepted p
\* gives back the watchee list the watch call found.
C34_UnwatchUndoesWatch ==
    [][(/\ last_call.op = "watch" /\ last_call.accepted
        /\ last_call'.op = "unwatch"
        /\ last_call'.raw = last_call.raw
        /\ last_call'.token = last_call.token)
           => watchees' = last_call.prior]_vars

\* C35 as stated: a watchee wants an event exactly when the event is of a
\* kind and a number of paths the watcher delivers and a path of it is the
\* watched path, a direct child of it or, for a recursive watchee, below it.
C35_WantsByPathOnly ==
    wants.asked =>
        (wants.out <=> /\ Delivered(wants.event)
                       /\ \E k \in 1..Len(wants.event.paths) :
                              FallsUnder(wants.w, wants.event.paths[k]))

\* C35 amended: the same, and for a watchee with a filter the path that
\* qualifies is one the filter accepts.
C35_WantsByPathAndFilter ==
    wants.asked => (wants.out <=> (Delivered(wants.event) /\ Owed(wants.w, wants.event)))

\* A watchee with a filter does not want a rename from c/m.rs to a/n.txt:
\* the path under the watched one is not accepted by the filter and the
\* path the filter accepts is not under the watched one.  The same watchee
\* without the filter wants it.
C35_Witness ==
    /\ wants.asked /\ ~wants.out
    /\ wants.w.filter = "rs"
    /\ wants.event.kind = "Modify(Name(Both))"
    /\ wants.event.paths = <<<<"c", "m.rs">>, <<"a", "n.txt">>>>
    /\ WantsEvent([wants.w EXCEPT !.filter = "none"], wants.event)

\* C36: whatever the underlying watcher reported before, a valid event it
\* reports that a registered watchee is owed is queued.
C36_DeliversAfterError ==
    [][(/\ Len(fs_log') > Len(fs_log)
        /\ Delivered(fs_log'[Len(fs_log')])
        /\ \E i \in 1..Len(watchees) : Owed(watchees[i], fs_log'[Len(fs_log')]))
           => Len(events') > Len(events)]_vars

\* C37: a SAVE_FILE command writes the file exactly when a current file is
\* set and the text differs from the text open_file loaded; so it writes
\* nothing after open_file and before an edit.
C37_SaveWritesOnlyChanges ==
    last_cmd.cmd = "save" =>
        (last_cmd.wrote <=> (current_file # NoFile /\ workspace.input_text # loaded))

\* C38: a request of a handle, whether Client::new() or Client::default()
\* built it, that is in the pending-request table and that the engine has
\* received and not yet answered is eventually answered to its callback.
C38_ResponseReachesCallback ==
    \A n \in 1..MaxSends, id \in 0..MaxSends :
        (/\ [h |-> 1, n |-> n, kind |-> "request", id |-> id, cb |-> "plain"]
                \in Received \ answered
         /\ Lookup(pending_requests, id) =
                [h |-> 1, n |-> n, kind |-> "request", id |-> id, cb |-> "plain"])
            ~> (\E i \in 1..Len(calls) :
                    calls[i][1] = [h |-> 1, n |-> n, kind |-> "request", id |-> id,
                                   cb |-> "plain"])

====
